---- MODULE Spec2Model ----
(***************************************************************************)
(* Model of the chat backend: the SQLite message store (database.ts) and   *)
(* the Express handlers (server): POST /api/chat in buffered and streaming *)
(* mode, GET /api/history/:sessionId, GET /api/sessions,                   *)
(* POST /api/sessions, DELETE /api/sessions/:sessionId and startServer.    *)
(*                                                                         *)
(* Text is a sequence of characters.  Every await of a handler is a point  *)
(* where other handlers interleave, so each action runs a handler from one *)
(* await to the next.                                                      *)
(***************************************************************************)
EXTENDS Integers, Sequences, FiniteSets, TLC

(* ---------------------------- bounds ----------------------------------- *)

\* the clock (CURRENT_TIMESTAMP, one-second resolution) runs 0..MaxTime
MaxTime == 1
\* rows ever inserted (AUTOINCREMENT ids 1..MaxId)
MaxId == 3
\* fragments one completion stream yields
MaxFragments == 2

\* the chat requests of a run; Solo are those the specification Spec runs
Requests == {1, 2}
Solo == {1}

(* ---------------------------- inputs ----------------------------------- *)

QUOTE == "\""
BSLASH == "\\"

\* session ids callers use; "default" is the handler's default (part_001:36)
Sessions == {"default", "s1"}

\* message texts a caller may send; <<>> is the empty string
Messages == {<<>>, <<"h">>}

\* answers chatModel.invoke may return
Replies == {<<"o">>}

\* chunk.content of the i-th chunk a completion stream yields
FragmentAt(i) == IF i % 2 = 1 THEN <<"a">> ELSE <<QUOTE>>

\* req.body of POST /api/chat: every field is optional in the JSON
ChatBodies ==
    {[message |-> m, sessionId |-> s, streaming |-> b] :
        m \in Messages, s \in Sessions, b \in BOOLEAN}
    \cup {[message |-> m] : m \in Messages}
    \cup {[sessionId |-> s] : s \in Sessions}

\* req.body of POST /api/sessions
SessionBodies == {[sessionId |-> s] : s \in Sessions \cup {""}} \cup {[other |-> 0]}

NoBody == [none |-> TRUE]

\* no non-chat response was sent in the latest step
NoResponse == [route |-> "none", sessionId |-> "", status |-> 0, json |-> NoBody]

VARIABLES
    server,            \* startServer: "starting", "listening" or "exited"
    db,                \* module-level handle: "null" or "open"
    messages,          \* the messages table: a set of rows
    sqlite_sequence,   \* AUTOINCREMENT's record of the largest id ever used
    now,               \* the store's clock, in seconds
    pc,                \* per chat request: where its handler stands
    message,           \* per chat request: the body's message
    sessionId,         \* per chat request: the body's sessionId, or "default"
    streaming,         \* per chat request: req.body.streaming === true
    history,           \* per chat request: the rows getConversationHistory returned
    langchainMessages, \* per chat request: the transcript handed to chatModel
    fullResponse,      \* per chat request: accumulated text / assistantMessage
    res,               \* per chat request: the HTTP response as the caller sees it
    saved,             \* per chat request: ids saveMessage returned (user, assistant)
    calls,             \* per chat request: completion calls started
    cleared,           \* per session: deleted and nothing inserted since
    last               \* the response a non-chat route sent in the latest step

vars == <<server, db, messages, sqlite_sequence, now, pc, message, sessionId,
          streaming, history,
          langchainMessages, fullResponse, res, saved, calls,
          cleared, last>>

storeVars == <<messages, sqlite_sequence>>
locals == <<message, sessionId, streaming, history, langchainMessages,
            fullResponse>>
reqVars == <<pc, locals, res, saved, calls>>

(* ------------------------- text and JSON -------------------------------- *)

RECURSIVE Concat(_)
\* the concatenation of a sequence of texts
Concat(ss) == IF ss = <<>> THEN <<>> ELSE Head(ss) \o Concat(Tail(ss))

RECURSIVE JSONEscape(_)
\* JSON.stringify of the characters of a string: " and \ get a backslash
JSONEscape(s) ==
    IF s = <<>> THEN <<>>
    ELSE (IF Head(s) \in {QUOTE, BSLASH} THEN <<BSLASH, Head(s)>> ELSE <<Head(s)>>)
         \o JSONEscape(Tail(s))

\* JSON.stringify of a string value: the escaped characters between quotes
JSONStringify(s) == <<QUOTE>> \o JSONEscape(s) \o <<QUOTE>>

RECURSIVE JSONUnescape(_)
\* the characters a JSON parser reads back from an escaped run
JSONUnescape(e) ==
    IF e = <<>> THEN <<>>
    ELSE IF Head(e) = BSLASH /\ Len(e) >= 2
         THEN <<e[2]>> \o JSONUnescape(Tail(Tail(e)))
         ELSE <<Head(e)>> \o JSONUnescape(Tail(e))

\* JSON.parse of a string literal as the caller does it
JSONParse(j) == JSONUnescape(SubSeq(j, 2, Len(j) - 1))

\* `data: ${JSON.stringify({ content })}\n\n`
ContentEvent(content) == [field |-> "content", value |-> JSONStringify(content)]

\* `data: ${JSON.stringify({ done: true })}\n\n`
DoneEvent == [field |-> "done", value |-> <<"t", "r", "u", "e">>]

(* ----------------------------- the store -------------------------------- *)

\* the guard every store function starts with
dbReady == db # "null"

\* mutant: the id column is declared without AUTOINCREMENT, so the new id is
\* one more than the largest id in the table
NewRow_MaxRowid(sid, role, content) ==
    LET ids == {row.id : row \in messages} \cup {0}
    IN  [id |-> 1 + CHOOSE i \in ids : \A j \in ids : j <= i,
         session_id |-> sid, role |-> role,
         content |-> content, timestamp |-> now]

\* INSERT INTO messages (session_id, role, content): id from AUTOINCREMENT,
\* timestamp from DEFAULT CURRENT_TIMESTAMP
NewRow(sid, role, content) ==
    [id |-> sqlite_sequence + 1, session_id |-> sid, role |-> role,
     content |-> content, timestamp |-> now]

\* mutant: the INSERT binds the default session id, not the caller's
saveMessage_DefaultSession(sid, role, content) ==
    /\ dbReady
    /\ sqlite_sequence < MaxId
    /\ messages' = messages \cup {NewRow("default", role, content)}
    /\ sqlite_sequence' = sqlite_sequence + 1

\* mutant: the INSERT replaces the row the session holds for the role
saveMessage_Upsert(sid, role, content) ==
    /\ dbReady
    /\ sqlite_sequence < MaxId
    /\ messages' = {row \in messages : row.session_id # sid \/ row.role # role}
                       \cup {NewRow(sid, role, content)}
    /\ sqlite_sequence' = sqlite_sequence + 1

\* saveMessage: one INSERT; the id it returns is that of the new row
saveMessage(sid, role, content) ==
    /\ dbReady
    /\ sqlite_sequence < MaxId
    /\ messages' = messages \cup {NewRow(sid, role, content)}
    /\ sqlite_sequence' = sqlite_sequence + 1

\* mutant: the placeholder row is stored with role "user"
createSession_UserRole(sid) ==
    /\ dbReady
    /\ sqlite_sequence < MaxId
    /\ messages' = messages \cup {NewRow(sid, "user", <<>>)}
    /\ sqlite_sequence' = sqlite_sequence + 1

\* mutant: the placeholder replaces the rows the session had
createSession_Reset(sid) ==
    /\ dbReady
    /\ sqlite_sequence < MaxId
    /\ messages' = {row \in messages : row.session_id # sid}
                       \cup {NewRow(sid, "assistant", <<>>)}
    /\ sqlite_sequence' = sqlite_sequence + 1

\* mutant: the placeholder is inserted only for a session without rows
createSession_IfAbsent(sid) ==
    /\ dbReady
    /\ IF \E row \in messages : row.session_id = sid
       THEN UNCHANGED <<messages, sqlite_sequence>>
       ELSE /\ sqlite_sequence < MaxId
            /\ messages' = messages \cup {NewRow(sid, "assistant", <<>>)}
            /\ sqlite_sequence' = sqlite_sequence + 1

\* createSession: one INSERT of the placeholder row
createSession(sid) ==
    /\ dbReady
    /\ sqlite_sequence < MaxId
    /\ messages' = messages \cup {NewRow(sid, "assistant", <<>>)}
    /\ sqlite_sequence' = sqlite_sequence + 1

\* mutant: the DELETE spares the assistant rows of the session
deleteSession_UserRowsOnly(table, sid) ==
    {row \in table : row.session_id # sid \/ row.role # "user"}

\* mutant: the DELETE has no WHERE clause
deleteSession_NoWhere(table, sid) == {}

\* DELETE FROM messages WHERE session_id = ?
deleteSession(table, sid) == {row \in table : row.session_id # sid}

RECURSIVE Perms(_)
\* every arrangement of a set of rows
Perms(S) ==
    IF S = {} THEN {<<>>}
    ELSE UNION {{<<x>> \o p : p \in Perms(S \ {x})} : x \in S}

RECURSIVE OrderByTimestamp(_)
\* ORDER BY timestamp ASC: rows of a smaller timestamp first; the statement
\* names no second key, so rows of equal timestamp come in any order
OrderByTimestamp(S) ==
    IF S = {} THEN {<<>>}
    ELSE LET t == CHOOSE u \in {row.timestamp : row \in S} :
                      \A row \in S : u <= row.timestamp
             G == {row \in S : row.timestamp = t}
         IN  {p \o q : p \in Perms(G), q \in OrderByTimestamp(S \ G)}

\* mutant: the SELECT has no WHERE clause
getConversationHistory_NoWhere(table, sid) == OrderByTimestamp(table)

\* getConversationHistory: the results the SELECT may return
getConversationHistory(table, sid) ==
    OrderByTimestamp({row \in table : row.session_id = sid})

\* the session ids of Sessions in descending string order
SessionsDesc == <<"s1", "default">>

\* mutant: the SELECT has neither DISTINCT nor GROUP BY
getAllSessions_PerRow(table) ==
    LET n(s) == Cardinality({row \in table : row.session_id = s})
    IN  [i \in 1..n("s1") |-> "s1"] \o [i \in 1..n("default") |-> "default"]

\* getAllSessions: SELECT DISTINCT session_id ... ORDER BY session_id DESC
getAllSessions(table) ==
    SelectSeq(SessionsDesc, LAMBDA s : \E row \in table : row.session_id = s)

(* ------------------------- POST /api/chat ------------------------------- *)

\* const { message, sessionId = "default" } = req.body
MessageOf(b) == IF "message" \in DOMAIN b THEN b.message ELSE <<>>
SessionIdOf(b) == IF "sessionId" \in DOMAIN b THEN b.sessionId ELSE "default"
\* req.body.streaming === true
StreamingOf(b) == IF "streaming" \in DOMAIN b THEN b.streaming ELSE FALSE

\* mutant: the history is not sliced
SliceDropLast_KeepAll(h) == h

\* history.slice(0, -1)
SliceDropLast(h) == IF Len(h) = 0 THEN <<>> ELSE SubSeq(h, 1, Len(h) - 1)

\* msg.role === "user" ? new HumanMessage(msg.content) : new AIMessage(msg.content)
ToLangchain(msg) ==
    [type |-> IF msg.role = "user" THEN "HumanMessage" ELSE "AIMessage",
     content |-> msg.content]

\* history.slice(0, -1).map(...) followed by push(new HumanMessage(message))
Assemble(h, text) ==
    [i \in 1..Len(SliceDropLast(h)) |-> ToLangchain(SliceDropLast(h)[i])]
    \o <<[type |-> "HumanMessage", content |-> text]>>

FreshRes ==
    [status |-> 0, contentType |-> "", headersSent |-> FALSE, json |-> NoBody,
     events |-> <<>>, ended |-> FALSE, drained |-> 0]

\* res.status(code).json(payload) on a response whose headers are not sent
SendJson(rs, code, payload) ==
    [rs EXCEPT !.status = code, !.headersSent = TRUE, !.json = payload,
               !.ended = TRUE,
               !.contentType = IF rs.contentType = "" THEN "application/json"
                               ELSE rs.contentType]

\* mutant: every event is written twice
Write_Twice(rs, ev) ==
    [rs EXCEPT !.status = IF rs.headersSent THEN rs.status ELSE 200,
               !.headersSent = TRUE,
               !.events = rs.events \o <<ev, ev>>]

\* res.write(event): the first write sends the headers with status 200
Write(rs, ev) ==
    [rs EXCEPT !.status = IF rs.headersSent THEN rs.status ELSE 200,
               !.headersSent = TRUE,
               !.events = Append(rs.events, ev)]

\* mutant: the catch block reports the failure on an open stream as an event
Catch_ErrorEvent(rs) ==
    IF rs.headersSent
    THEN [Write(rs, [field |-> "error", value |-> <<"t", "r", "u", "e">>])
              EXCEPT !.ended = TRUE]
    ELSE SendJson(rs, 500, [error |-> "Internal server error"])

\* the catch block: res.status(500).json(...) throws once the headers are
\* sent, and the response is then left as it is
Catch(rs) ==
    IF rs.headersSent THEN rs
    ELSE SendJson(rs, 500, [error |-> "Internal server error"])

(* ---------------------------- startServer ------------------------------ *)

\* mutant: app.listen(PORT) is called without awaiting initDatabase()
StartServer_ListenFirst ==
    /\ server = "starting"
    /\ db' \in {"null", "open"}
    /\ server' = "listening"
    /\ UNCHANGED <<storeVars, now, reqVars, cleared, last>>

\* await initDatabase() returned: app.listen(PORT)
StartServer ==
    /\ server = "starting"
    /\ db' = "open"
    /\ server' = "listening"
    /\ UNCHANGED <<storeVars, now, reqVars, cleared, last>>

\* initDatabase threw (open or exec): process.exit(1)
StartServerFail ==
    /\ server = "starting"
    /\ db' \in {"null", "open"}
    /\ server' = "exited"
    /\ UNCHANGED <<storeVars, now, reqVars, cleared, last>>

\* a second of wall-clock time passes
Tick ==
    /\ server = "listening"
    /\ now < MaxTime
    /\ now' = now + 1
    /\ last' = NoResponse
    /\ UNCHANGED <<server, db, storeVars, reqVars, cleared>>

(* ------------------------- POST /api/chat ------------------------------- *)

\* the handler returns (or its promise rejects): its locals are gone
Return(r) ==
    /\ message' = [message EXCEPT ![r] = <<>>]
    /\ sessionId' = [sessionId EXCEPT ![r] = "default"]
    /\ streaming' = [streaming EXCEPT ![r] = FALSE]
    /\ history' = [history EXCEPT ![r] = <<>>]
    /\ langchainMessages' = [langchainMessages EXCEPT ![r] = <<>>]
    /\ fullResponse' = [fullResponse EXCEPT ![r] = <<>>]

\* mutant: the handler does not validate the message
ChatReceive_NoValidation(r, b) ==
    /\ server = "listening"
    /\ pc[r] = "idle"
    /\ \A q \in Requests : q < r => pc[q] # "idle"
    /\ message' = [message EXCEPT ![r] = MessageOf(b)]
    /\ sessionId' = [sessionId EXCEPT ![r] = SessionIdOf(b)]
    /\ streaming' = [streaming EXCEPT ![r] = StreamingOf(b)]
    /\ pc' = [pc EXCEPT ![r] = "save_user"]
    /\ last' = NoResponse
    /\ UNCHANGED <<server, db, storeVars, now, history, langchainMessages,
                   fullResponse, res, saved, calls, cleared>>

\* lines 36-47: destructure the body, validate, call saveMessage(user)
ChatReceive(r, b) ==
    /\ server = "listening"
    /\ pc[r] = "idle"
    /\ \A q \in Requests : q < r => pc[q] # "idle"
    /\ IF MessageOf(b) = <<>>
       THEN /\ res' = [res EXCEPT ![r] =
                          SendJson(@, 400, [error |-> "Message is required"])]
            /\ pc' = [pc EXCEPT ![r] = "done"]
            /\ UNCHANGED <<message, sessionId, streaming>>
       ELSE /\ message' = [message EXCEPT ![r] = MessageOf(b)]
            /\ sessionId' = [sessionId EXCEPT ![r] = SessionIdOf(b)]
            /\ streaming' = [streaming EXCEPT ![r] = StreamingOf(b)]
            /\ pc' = [pc EXCEPT ![r] = "save_user"]
            /\ UNCHANGED res
    /\ last' = NoResponse
    /\ UNCHANGED <<server, db, storeVars, now, history, langchainMessages,
                   fullResponse, saved, calls, cleared>>

\* mutant: saveMessage(user) is not awaited, the handler goes on without it
PersistUserTurn_NotAwaited(r) ==
    /\ pc[r] = "save_user"
    /\ pc' = [pc EXCEPT ![r] = "read_history"]
    /\ last' = NoResponse
    /\ UNCHANGED <<server, db, storeVars, now, locals, res, saved, calls,
                   cleared>>

\* mutant: the handler may store the user turn once more
PersistUserTurn_Again(r) ==
    /\ pc[r] = "save_user"
    /\ saveMessage(sessionId[r], "user", message[r])
    /\ saved' = [saved EXCEPT ![r].user = sqlite_sequence']
    /\ cleared' = [cleared EXCEPT ![sessionId[r]] = FALSE]
    /\ \E next \in {"save_user", "read_history"} :
           pc' = [pc EXCEPT ![r] = next]
    /\ last' = NoResponse
    /\ UNCHANGED <<server, db, now, locals, res, calls>>

\* lines 43-50: saveMessage(user) resolves; getConversationHistory is called
PersistUserTurn(r) ==
    /\ pc[r] = "save_user"
    /\ saveMessage(sessionId[r], "user", message[r])
    /\ saved' = [saved EXCEPT ![r].user = sqlite_sequence']
    /\ cleared' = [cleared EXCEPT ![sessionId[r]] = FALSE]
    /\ pc' = [pc EXCEPT ![r] = "read_history"]
    /\ last' = NoResponse
    /\ UNCHANGED <<server, db, now, locals, res, calls>>

\* lines 50-75 / 50-94: the history arrives, the transcript is assembled and
\* the completion call is started (stream after the SSE headers are set)
AssembleAndCall(r, h) ==
    /\ pc[r] = "read_history"
    /\ dbReady
    /\ h \in getConversationHistory(messages, sessionId[r])
    /\ history' = [history EXCEPT ![r] = h]
    /\ langchainMessages' =
           [langchainMessages EXCEPT ![r] = Assemble(h, message[r])]
    /\ calls' = [calls EXCEPT ![r] = @ + 1]
    /\ IF streaming[r]
       THEN /\ res' = [res EXCEPT ![r].contentType = "text/event-stream"]
            /\ pc' = [pc EXCEPT ![r] = "stream_open"]
       ELSE /\ pc' = [pc EXCEPT ![r] = "invoke"]
            /\ UNCHANGED res
    /\ last' = NoResponse
    /\ UNCHANGED <<server, db, storeVars, now, message, sessionId, streaming,
                   fullResponse, saved, cleared>>

\* lines 94-102: chatModel.invoke resolves; saveMessage(assistant) is called
InvokeReturn(r, text) ==
    /\ pc[r] = "invoke"
    /\ fullResponse' = [fullResponse EXCEPT ![r] = text]
    /\ pc' = [pc EXCEPT ![r] = "save_assistant"]
    /\ last' = NoResponse
    /\ UNCHANGED <<server, db, storeVars, now, message, sessionId, streaming,
                   history, langchainMessages, res, saved, calls, cleared>>

\* line 75: chatModel.stream resolves with the stream
StreamOpen(r) ==
    /\ pc[r] = "stream_open"
    /\ pc' = [pc EXCEPT ![r] = "stream_next"]
    /\ last' = NoResponse
    /\ UNCHANGED <<server, db, storeVars, now, locals, res, saved, calls,
                   cleared>>

\* mutant: the chunk replaces the accumulated text (= instead of +=)
StreamChunk_Overwrite(r, content) ==
    /\ pc[r] = "stream_next"
    /\ Len(res[r].events) < MaxFragments
    /\ content = FragmentAt(Len(res[r].events) + 1)
    /\ fullResponse' = [fullResponse EXCEPT ![r] = content]
    /\ res' = [res EXCEPT ![r] = Write(@, ContentEvent(content))]
    /\ last' = NoResponse
    /\ UNCHANGED <<server, db, storeVars, now, pc, message, sessionId,
                   streaming, history, langchainMessages, saved, calls,
                   cleared>>

\* lines 77-81: one chunk arrives, is accumulated and written to the caller
StreamChunk(r, content) ==
    /\ pc[r] = "stream_next"
    /\ Len(res[r].events) < MaxFragments
    /\ content = FragmentAt(Len(res[r].events) + 1)
    /\ fullResponse' = [fullResponse EXCEPT ![r] = @ \o content]
    /\ res' = [res EXCEPT ![r] = Write(@, ContentEvent(content))]
    /\ last' = NoResponse
    /\ UNCHANGED <<server, db, storeVars, now, pc, message, sessionId,
                   streaming, history, langchainMessages, saved, calls,
                   cleared>>

\* lines 81-88: the stream is drained; saveMessage(assistant) is called
StreamEnd(r) ==
    /\ pc[r] = "stream_next"
    /\ pc' = [pc EXCEPT ![r] = "save_assistant"]
    /\ last' = NoResponse
    /\ UNCHANGED <<server, db, storeVars, now, locals, res, saved, calls,
                   cleared>>

\* mutant: the reply is sent without awaiting saveMessage(assistant)
PersistAssistantTurn_NotAwaited(r) ==
    /\ pc[r] = "save_assistant"
    /\ res' = [res EXCEPT ![r] =
                  IF streaming[r]
                  THEN [Write(@, DoneEvent) EXCEPT !.ended = TRUE]
                  ELSE SendJson(@, 200, [message |-> fullResponse[r]])]
    /\ pc' = [pc EXCEPT ![r] = "done"]
    /\ Return(r)
    /\ last' = NoResponse
    /\ UNCHANGED <<server, db, storeVars, now, saved, calls, cleared>>

\* lines 84-91 / 98-104: saveMessage(assistant) resolves; the reply is sent
PersistAssistantTurn(r) ==
    /\ pc[r] = "save_assistant"
    /\ saveMessage(sessionId[r], "assistant", fullResponse[r])
    /\ saved' = [saved EXCEPT ![r].assistant = sqlite_sequence']
    /\ cleared' = [cleared EXCEPT ![sessionId[r]] = FALSE]
    /\ res' = [res EXCEPT ![r] =
                  IF streaming[r]
                  THEN [Write(@, DoneEvent) EXCEPT !.ended = TRUE]
                  ELSE SendJson(@, 200, [message |-> fullResponse[r]])]
    /\ pc' = [pc EXCEPT ![r] = "done"]
    /\ Return(r)
    /\ last' = NoResponse
    /\ UNCHANGED <<server, db, now, calls>>

\* the caller reads the next event off the response (reader.read()); until
\* then the event written by res.write waits in the response's buffer
Drain(r) ==
    /\ res[r].drained < Len(res[r].events)
    /\ res' = [res EXCEPT ![r].drained = @ + 1]
    /\ last' = NoResponse
    /\ UNCHANGED <<server, db, storeVars, now, pc, locals, saved, calls,
                   cleared>>

\* the pending await of the handler
Awaiting == {"save_user", "read_history", "invoke", "stream_open",
             "stream_next", "save_assistant"}

\* mutant: the catch block rolls the user turn back
ChatFail_Rollback(r) ==
    /\ pc[r] \in Awaiting
    /\ res' = [res EXCEPT ![r] = Catch(@)]
    /\ pc' = [pc EXCEPT ![r] = IF res[r].headersSent THEN "aborted" ELSE "done"]
    /\ Return(r)
    /\ messages' = {row \in messages : row.id # saved[r].user}
    /\ last' = NoResponse
    /\ UNCHANGED <<server, db, sqlite_sequence, now, saved, calls, cleared>>

\* mutant: a rejected chatModel.invoke is called once more
ChatFail_Retry(r) ==
    /\ pc[r] \in Awaiting
    /\ IF pc[r] = "invoke" /\ calls[r] < 2
       THEN /\ calls' = [calls EXCEPT ![r] = @ + 1]
            /\ UNCHANGED <<pc, locals, res>>
       ELSE /\ res' = [res EXCEPT ![r] = Catch(@)]
            /\ pc' = [pc EXCEPT ![r] =
                          IF res[r].headersSent THEN "aborted" ELSE "done"]
            /\ Return(r)
            /\ UNCHANGED calls
    /\ last' = NoResponse
    /\ UNCHANGED <<server, db, storeVars, now, saved, cleared>>

\* mutant: the catch block stores the text accumulated so far
ChatFail_SavePartial(r) ==
    /\ pc[r] \in Awaiting
    /\ res' = [res EXCEPT ![r] = Catch(@)]
    /\ pc' = [pc EXCEPT ![r] = IF res[r].headersSent THEN "aborted" ELSE "done"]
    /\ IF res[r].headersSent
       THEN /\ saveMessage(sessionId[r], "assistant", fullResponse[r])
            /\ saved' = [saved EXCEPT ![r].assistant = sqlite_sequence']
            /\ cleared' = [cleared EXCEPT ![sessionId[r]] = FALSE]
       ELSE UNCHANGED <<storeVars, saved, cleared>>
    /\ Return(r)
    /\ last' = NoResponse
    /\ UNCHANGED <<server, db, now, calls>>

\* lines 106-109: the pending await rejects (storage or completion failure)
ChatFail(r) ==
    /\ pc[r] \in Awaiting
    /\ res' = [res EXCEPT ![r] = Catch(@)]
    /\ pc' = [pc EXCEPT ![r] = IF res[r].headersSent THEN "aborted" ELSE "done"]
    /\ Return(r)
    /\ last' = NoResponse
    /\ UNCHANGED <<server, db, storeVars, now, saved, calls, cleared>>

(* --------------------------- other routes ------------------------------- *)

\* GET /api/history/:sessionId
GetHistory(sid, h) ==
    /\ server = "listening"
    /\ dbReady
    /\ h \in getConversationHistory(messages, sid)
    /\ last' = [route |-> "history", sessionId |-> sid, status |-> 200,
                json |-> [history |-> h]]
    /\ UNCHANGED <<server, db, storeVars, now, reqVars, cleared>>

\* GET /api/sessions
GetSessions ==
    /\ server = "listening"
    /\ dbReady
    /\ last' = [route |-> "sessions", sessionId |-> "", status |-> 200,
                json |-> [sessions |-> getAllSessions(messages)]]
    /\ UNCHANGED <<server, db, storeVars, now, reqVars, cleared>>

\* const { sessionId } = req.body
CreateIdOf(b) == IF "sessionId" \in DOMAIN b THEN b.sessionId ELSE ""

\* mutant: the handler does not check sessionId
PostSessions_NoValidation(b) ==
    /\ server = "listening"
    /\ createSession(CreateIdOf(b))
    /\ cleared' = [s \in Sessions |->
                       IF s = CreateIdOf(b) THEN FALSE ELSE cleared[s]]
    /\ last' = [route |-> "create", sessionId |-> CreateIdOf(b),
                status |-> 200, json |-> [success |-> TRUE]]
    /\ UNCHANGED <<server, db, now, reqVars>>

\* POST /api/sessions
PostSessions(b) ==
    /\ server = "listening"
    /\ IF CreateIdOf(b) = ""
       THEN /\ last' = [route |-> "create", sessionId |-> "", status |-> 400,
                        json |-> [error |-> "Session ID is required"]]
            /\ UNCHANGED <<storeVars, cleared>>
       ELSE /\ createSession(CreateIdOf(b))
            /\ cleared' = [cleared EXCEPT ![CreateIdOf(b)] = FALSE]
            /\ last' = [route |-> "create", sessionId |-> CreateIdOf(b),
                        status |-> 200, json |-> [success |-> TRUE]]
    /\ UNCHANGED <<server, db, now, reqVars>>

\* DELETE /api/sessions/:sessionId
DeleteSessions(sid) ==
    /\ server = "listening"
    /\ dbReady
    /\ messages' = deleteSession(messages, sid)
    /\ cleared' = [cleared EXCEPT ![sid] = TRUE]
    /\ last' = [route |-> "delete", sessionId |-> sid, status |-> 200,
                json |-> [success |-> TRUE]]
    /\ UNCHANGED <<server, db, sqlite_sequence, now, reqVars>>

\* the catch block of a non-chat route: its store call rejected
RouteFail(route, sid) ==
    /\ server = "listening"
    /\ last' = [route |-> route, sessionId |-> sid, status |-> 500,
                json |-> [error |-> "Internal server error"]]
    /\ UNCHANGED <<server, db, storeVars, now, reqVars, cleared>>

(* -------------------------- specification ------------------------------- *)

Init ==
    /\ server = "starting"
    /\ db = "null"
    /\ messages = {}
    /\ sqlite_sequence = 0
    /\ now = 0
    /\ pc = [r \in Requests |-> "idle"]
    /\ message = [r \in Requests |-> <<>>]
    /\ sessionId = [r \in Requests |-> "default"]
    /\ streaming = [r \in Requests |-> FALSE]
    /\ history = [r \in Requests |-> <<>>]
    /\ langchainMessages = [r \in Requests |-> <<>>]
    /\ fullResponse = [r \in Requests |-> <<>>]
    /\ res = [r \in Requests |-> FreshRes]
    /\ saved = [r \in Requests |-> [user |-> 0, assistant |-> 0]]
    /\ calls = [r \in Requests |-> 0]
    /\ cleared = [s \in Sessions |-> FALSE]
    /\ last = NoResponse

\* every step of chat request r
ChatStep(r) ==
    \/ \E b \in ChatBodies : ChatReceive(r, b)
    \/ PersistUserTurn(r)
    \/ \E h \in getConversationHistory(messages, sessionId[r]) :
           AssembleAndCall(r, h)
    \/ \E text \in Replies : InvokeReturn(r, text)
    \/ StreamOpen(r)
    \/ \E i \in 1..MaxFragments : StreamChunk(r, FragmentAt(i))
    \/ StreamEnd(r)
    \/ PersistAssistantTurn(r)
    \/ ChatFail(r)

\* the chat route with session creation and deletion around it
NextChat ==
    \/ StartServer
    \/ StartServerFail
    \/ Tick
    \/ \E r \in Solo : ChatStep(r)
    \/ \E b \in SessionBodies : PostSessions(b)
    \/ \E sid \in Sessions : DeleteSessions(sid)

\* every route
Next ==
    \/ NextChat
    \/ \E sid \in Sessions : \E h \in getConversationHistory(messages, sid) :
           GetHistory(sid, h)
    \/ GetSessions
    \/ \E route \in {"history", "sessions", "create", "delete"} :
           \E sid \in Sessions : RouteFail(route, sid)

Spec == Init /\ [][NextChat]_vars

SpecAll == Init /\ [][Next]_vars

\* the session and history routes alone, with no chat request under way
NextStore ==
    \/ StartServer
    \/ StartServerFail
    \/ Tick
    \/ \E b \in SessionBodies : PostSessions(b)
    \/ \E sid \in Sessions : DeleteSessions(sid)
    \/ \E sid \in Sessions : \E h \in getConversationHistory(messages, sid) :
           GetHistory(sid, h)
    \/ GetSessions
    \/ \E route \in {"history", "sessions", "create", "delete"} :
           \E sid \in Sessions : RouteFail(route, sid)

SpecStore == Init /\ [][NextStore]_vars

\* the chat route with its caller reading the response
NextRelay ==
    \/ StartServer
    \/ StartServerFail
    \/ Tick
    \/ \E r \in Solo : ChatStep(r)
    \/ \E r \in Solo : Drain(r)

SpecRelay == Init /\ [][NextRelay]_vars

\* two chat requests in flight at once
NextPair ==
    \/ StartServer
    \/ StartServerFail
    \/ Tick
    \/ \E r \in Requests : ChatStep(r)

SpecPair == Init /\ [][NextPair]_vars

(* ------------------------------ claims ---------------------------------- *)

\* the completion call of request r is under way
CallRunning(r) == pc[r] \in {"invoke", "stream_open", "stream_next"}

\* the stored rows with the given id (one or none)
RowsById(id) == {row \in messages : row.id = id}

\* the texts of the content events of a response, in arrival order
EventContents(rs) ==
    LET evs == SelectSeq(rs.events, LAMBDA ev : ev.field = "content")
    IN  [i \in 1..Len(evs) |-> JSONParse(evs[i].value)]

\* C1: within a chat request, buffered or streaming, the user turn has been
\* appended before the completion call starts, no assistant turn exists while
\* the call runs, and an assistant turn is appended only after the one call
\* has returned or its stream is drained.
C1_PersistOrder ==
    \A r \in Requests :
        /\ (calls[r] > 0 \/ CallRunning(r)) => saved[r].user # 0
        /\ CallRunning(r) => (calls[r] = 1 /\ saved[r].assistant = 0)
        /\ pc[r] = "save_assistant" => (calls[r] = 1 /\ saved[r].assistant = 0)
        /\ saved[r].assistant # 0 =>
               /\ pc[r] = "done"
               /\ calls[r] = 1
               /\ saved[r].user # 0
               /\ saved[r].user < saved[r].assistant

C1_Witness ==
    /\ pc[1] = "done"
    /\ saved[1].assistant # 0
    /\ res[1].contentType = "text/event-stream"
    /\ Len(res[1].events) = 3

\* C2: once a chat request has appended its user turn, no later step of that
\* request (history read, completion call, assistant append, or the failure
\* of any of them) removes or changes the stored turn.
C2_UserTurnKept ==
    [][\A r \in Requests :
          (pc'[r] # pc[r] \/ res'[r] # res[r]) =>
              RowsById(saved[r].user) \subseteq messages']_vars

C2_Witness ==
    /\ pc[1] = "done"
    /\ res[1].status = 500
    /\ calls[1] = 1
    /\ \E row \in RowsById(saved[1].user) : row.role = "user"

\* C3: a chat request whose message is empty or missing is answered 400 with
\* an error body; it appends no turn to any session and starts no completion
\* call.
C3_EmptyMessageRejected ==
    [][\A r \in Requests :
          (pc[r] = "idle" /\ pc'[r] # "idle") =>
              \A b \in ChatBodies :
                  (MessageOf(b) = <<>> /\ ChatReceive(r, b)) =>
                      /\ res'[r].status = 400
                      /\ res'[r].ended
                      /\ DOMAIN res'[r].json = {"error"}
                      /\ pc'[r] = "done"
                      /\ UNCHANGED <<messages, sqlite_sequence, calls, saved>>]_vars

C3_Witness ==
    /\ res[1].status = 400
    /\ messages # {}

\* C4: when a streaming chat request has persisted its assistant turn, the
\* content of that turn is the concatenation, in arrival order, of the
\* content fields of the data events written before the done event.
C4_StreamRoundTrip ==
    \A r \in Requests :
        (saved[r].assistant # 0 /\ res[r].contentType = "text/event-stream") =>
            /\ res[r].events[Len(res[r].events)] = DoneEvent
            /\ \A row \in RowsById(saved[r].assistant) :
                   row.content = Concat(EventContents(res[r]))

C4_Witness ==
    /\ saved[1].assistant # 0
    /\ res[1].contentType = "text/event-stream"
    /\ Len(res[1].events) = 3
    /\ RowsById(saved[1].assistant) # {}

\* the position of the row with the given id in a history
PositionOf(h, id) == CHOOSE i \in 1..Len(h) : h[i].id = id

\* the request answered with {message} by the buffered branch
AnsweredJson(r) ==
    /\ pc[r] = "done"
    /\ res[r].status = 200
    /\ DOMAIN res[r].json = {"message"}

\* C5: after a non-streaming chat request has answered {message}, the
\* history of its session holds its user turn and its assistant turn with the
\* returned reply, the user turn first, also when both carry the same
\* timestamp (stated for as long as both turns are stored).
C5_UserBeforeAssistant ==
    \A r \in Requests :
        AnsweredJson(r) =>
            \A u \in RowsById(saved[r].user) :
            \A a \in RowsById(saved[r].assistant) :
                /\ u.role = "user"
                /\ a.role = "assistant"
                /\ a.content = res[r].json.message
                /\ a.session_id = u.session_id
                /\ \A h \in getConversationHistory(messages, u.session_id) :
                       PositionOf(h, u.id) < PositionOf(h, a.id)

\* a history is sorted by timestamp, rows of equal timestamp by id
SortedByTimestampThenId(h) ==
    \A i, j \in 1..Len(h) :
        i < j => \/ h[i].timestamp < h[j].timestamp
                 \/ (h[i].timestamp = h[j].timestamp /\ h[i].id < h[j].id)

\* C6: for every session and store state, history(session) is sorted by
\* timestamp ascending, turns of equal timestamp by id ascending.
C6_HistoryOrdered ==
    \A s \in Sessions :
        \A h \in getConversationHistory(messages, s) :
            SortedByTimestampThenId(h)

\* the transcript has been assembled and the handler has not returned
Assembled(r) == pc[r] \in {"invoke", "stream_open", "stream_next", "save_assistant"}

\* C7: the transcript handed to the completion service is every turn of the
\* history read other than the request's own user turn, in order and with
\* role and content kept, followed by one user entry with the incoming text.
C7_DropsOwnTurn ==
    \A r \in Requests :
        Assembled(r) =>
            LET others == SelectSeq(history[r], LAMBDA row : row.id # saved[r].user)
            IN  langchainMessages[r] =
                    [i \in 1..Len(others) |-> ToLangchain(others[i])]
                    \o <<[type |-> "HumanMessage", content |-> message[r]]>>

\* C8 as claimed: the transcript has as many messages as the history read
\* returned turns, for every store state the read can observe.
C8_LengthEqualsHistory ==
    \A r \in Requests :
        Assembled(r) => Len(langchainMessages[r]) = Len(history[r])

\* C8: the transcript has as many messages as the history read returned
\* turns when that read is not empty and one message when it is empty; its
\* leading entries are the turns of the read but the last, in the read's
\* order, and its last entry is the incoming text.
C8_LengthAndOrder ==
    \A r \in Requests :
        Assembled(r) =>
            LET h == history[r]
                lm == langchainMessages[r]
            IN  /\ Len(lm) = IF Len(h) = 0 THEN 1 ELSE Len(h)
                /\ \A i \in 1..(Len(lm) - 1) : lm[i] = ToLangchain(h[i])
                /\ lm[Len(lm)] = [type |-> "HumanMessage", content |-> message[r]]

C8_Witness ==
    /\ Assembled(1)
    /\ history[1] = <<>>
    /\ saved[1].user # 0
    /\ messages # {}

\* C9: after deleteSession(s), and until a turn is appended to s again,
\* history(s) is empty and s is not listed by getAllSessions.
C9_DeletedStaysEmpty ==
    \A s \in Sessions :
        cleared[s] =>
            /\ getConversationHistory(messages, s) = {<<>>}
            /\ \A i \in 1..Len(getAllSessions(messages)) :
                   getAllSessions(messages)[i] # s

C9_Witness ==
    \E s \in Sessions :
        /\ cleared[s]
        /\ saved[1].user # 0
        /\ RowsById(saved[1].user) = {}
        /\ messages # {}

\* C10: DELETE /api/sessions/:sessionId answers {success: true}; on a session
\* without turns it leaves the store unchanged, and deleting the same
\* session again changes nothing.
C10_DeleteIdempotent ==
    [][\A sid \in Sessions :
          DeleteSessions(sid) =>
              /\ last'.status = 200
              /\ last'.json = [success |-> TRUE]
              /\ deleteSession(messages', sid) = messages'
              /\ (\A row \in messages : row.session_id # sid) =>
                     UNCHANGED <<messages, sqlite_sequence>>]_vars

C10_Witness ==
    /\ last.route = "delete"
    /\ last.status = 200
    /\ messages # {}
    /\ Cardinality(messages) = sqlite_sequence

\* the stored rows of a session
RowsOf(table, sid) == {row \in table : row.session_id = sid}

\* a step in which POST /api/sessions answered success for a session
Created(sid) ==
    last'.route = "create" /\ last'.status = 200 /\ last'.sessionId = sid

\* C11: when POST /api/sessions succeeds for a session that owned no turn,
\* the session is listed afterwards and its history is one element long,
\* the placeholder with role "assistant" and empty content; no user turn
\* is stored for it.
C11_CreateOnFresh ==
    [][\A x \in Sessions :
           (Created(x) /\ RowsOf(messages, x) = {}) =>
               /\ \E i \in DOMAIN getAllSessions(messages') :
                      getAllSessions(messages')[i] = x
               /\ \A h \in getConversationHistory(messages', x) :
                      /\ Len(h) = 1
                      /\ h[1].session_id = x
                      /\ h[1].role = "assistant"
                      /\ h[1].content = <<>>
               /\ \A row \in RowsOf(messages', x) : row.role # "user"]_vars

\* a session was created next to a stored session and holds its placeholder
C11_Witness ==
    /\ last.route = "create"
    /\ last.status = 200
    /\ Cardinality(RowsOf(messages, last.sessionId)) = 1
    /\ \E row \in messages : row.session_id # last.sessionId

\* GET /api/history/:sessionId answered 200 in the latest step
HistoryAnswered(rsp) == rsp.route = "history" /\ rsp.status = 200

StreamFailed(r) ==
    /\ pc[r] \in {"stream_open", "stream_next"}
    /\ pc'[r] \in {"done", "aborted"}

\* the response carries no done event
NoDone(rs) == \A i \in DOMAIN rs.events : rs.events[i] # DoneEvent

\* C13 as stated: wherever the completion call of a streaming request fails
\* (at the opening of the stream, before the first fragment or between
\* fragments), the response ends with no done event and no error payload.
C13_StreamFailSilent ==
    [][\A r \in Requests :
           StreamFailed(r) =>
               (NoDone(res'[r]) /\ res'[r].json = NoBody)]_vars

\* C13 amended: a failure of the completion call after a fragment was
\* written leaves the response as it was, with no done event and no error
\* payload; a failure before any fragment was written is answered with
\* HTTP 500 and an error body, and no event is sent.
C13_StreamFailByPhase ==
    [][\A r \in Requests :
           StreamFailed(r) =>
               /\ NoDone(res'[r])
               /\ IF res[r].headersSent
                  THEN /\ res'[r] = res[r]
                       /\ res'[r].json = NoBody
                       /\ res'[r].status = 200
                       /\ pc'[r] = "aborted"
                  ELSE /\ res'[r].status = 500
                       /\ res'[r].json = [error |-> "Internal server error"]
                       /\ res'[r].events = <<>>
                       /\ pc'[r] = "done"]_vars

\* a stream failed after a fragment had reached the caller
C13_Witness ==
    \E r \in Requests :
        /\ pc[r] = "aborted"
        /\ Len(res[r].events) >= 1
        /\ res[r].contentType = "text/event-stream"

\* a step in which chatModel.invoke of buffered request r rejected
InvokeFailed(r) ==
    /\ pc[r] = "invoke"
    /\ pc'[r] \notin {"invoke", "save_assistant"}

\* C14: when chatModel.invoke of a non-streaming request fails, the request
\* is answered with HTTP 500 and an error body, the completion service has
\* been called exactly once for it and is not called again, and no
\* assistant turn is appended for it.
C14_FailureNotRetried ==
    [][\A r \in Requests :
           /\ InvokeFailed(r) =>
                  /\ res'[r].status = 500
                  /\ res'[r].json = [error |-> "Internal server error"]
                  /\ res'[r].ended
                  /\ pc'[r] = "done"
                  /\ calls'[r] = 1
                  /\ saved'[r].assistant = 0
                  /\ messages' = messages
           /\ (pc[r] = "done" /\ res[r].status = 500) =>
                  /\ pc'[r] = "done"
                  /\ calls'[r] = calls[r]
                  /\ calls[r] <= 1
                  /\ saved'[r].assistant = 0]_vars

\* a buffered request was answered 500 after its one completion call
C14_Witness ==
    \E r \in Requests :
        /\ pc[r] = "done"
        /\ res[r].status = 500
        /\ res[r].contentType = "application/json"
        /\ calls[r] = 1
        /\ saved[r].user # 0
        /\ RowsById(saved[r].user) # {}

\* the session ids that own at least one stored turn
Owners == {row.session_id : row \in messages}

\* a list holds exactly the ids of a set, each once
ListsOnce(l, S) == {l[i] : i \in DOMAIN l} = S /\ Len(l) = Cardinality(S)

\* C15: getAllSessions returns exactly the session ids that own at least
\* one stored turn, each once, and GET /api/sessions answers with that
\* list: a session with several turns is listed once and a session whose
\* turns were all deleted is not listed.
C15_SessionsListed ==
    /\ ListsOnce(getAllSessions(messages), Owners)
    /\ (last.route = "sessions" /\ last.status = 200) =>
           ListsOnce(last.json.sessions, Owners)

\* GET /api/sessions listed two sessions, one of them owning two turns
C15_Witness ==
    /\ last.route = "sessions"
    /\ last.status = 200
    /\ Len(last.json.sessions) = 2
    /\ Cardinality(messages) = 3

\* C16: getConversationHistory(s) returns every stored turn of session s,
\* each once, and no turn of another session; for a session that owns no
\* turn it returns the empty sequence and GET /api/history/:sessionId can
\* answer 200 with an empty history array.
C16_HistoryOfSession ==
    /\ \A s \in Sessions :
           /\ \A h \in getConversationHistory(messages, s) :
                  ListsOnce(h, RowsOf(messages, s))
           /\ (server = "listening" /\ RowsOf(messages, s) = {}) =>
                  ENABLED GetHistory(s, <<>>)
    /\ HistoryAnswered(last) =>
           ListsOnce(last.json.history, RowsOf(messages, last.sessionId))

\* a session without turns was read next to a session that owns turns
C16_Witness ==
    /\ HistoryAnswered(last)
    /\ last.json.history = <<>>
    /\ RowsOf(messages, last.sessionId) = {}
    /\ messages # {}

\* a step in which DELETE /api/sessions/:sessionId answered for a session
Deleted(sid) ==
    last'.route = "delete" /\ last'.status = 200 /\ last'.sessionId = sid

\* C17: a stored turn keeps its id, session_id, role, content and timestamp
\* through every step of every route, and it leaves the store only in a
\* step of DELETE /api/sessions/:sessionId for its own session id.
C17_TurnsImmutable ==
    [][\A row \in messages :
           /\ \A other \in messages' : other.id = row.id => other = row
           /\ row \notin messages' => Deleted(row.session_id)]_vars

\* a turn appended by a chat request is stored unchanged after another
\* session was deleted and the request has ended
C17_Witness ==
    \E r \in Requests : \E s \in Sessions :
        /\ pc[r] = "done"
        /\ RowsById(saved[r].user) # {}
        /\ \A row \in RowsById(saved[r].user) : row.session_id # s
        /\ cleared[s]

\* C18: no two stored turns share an id; every append, by a chat request
\* or by POST /api/sessions, stores a turn whose id is greater than the id
\* of every turn stored before it, deleted ones included, so the id of a
\* deleted turn is never given out again.
C18_IdsNeverReused ==
    [][/\ \A row \in messages : row.id <= sqlite_sequence
       /\ sqlite_sequence' >= sqlite_sequence
       /\ \A row \in messages' \ messages :
              /\ row.id > sqlite_sequence
              /\ \A old \in messages : row.id > old.id
       /\ \A a, b \in messages' : a.id = b.id => a = b]_vars

\* a session was created after an earlier turn had been deleted
C18_Witness ==
    /\ last.route = "create"
    /\ last.status = 200
    /\ \E row \in messages : row.id = sqlite_sequence
    /\ Cardinality(messages) < sqlite_sequence

\* a step of POST /api/sessions that answered 200 or 400
CreateAnswered == last'.route = "create" /\ last'.status \in {200, 400}

\* C19: POST /api/sessions whose body has no sessionId or an empty one is
\* answered with HTTP 400 and an error body and stores nothing; with a
\* non-empty sessionId it stores exactly one row, the placeholder of that
\* session, and answers {success: true}.
C19_CreateValidated ==
    [][CreateAnswered =>
           \A b \in SessionBodies :
               PostSessions(b) =>
                   IF CreateIdOf(b) = ""
                   THEN /\ last'.status = 400
                        /\ last'.json = [error |-> "Session ID is required"]
                        /\ messages' = messages
                        /\ sqlite_sequence' = sqlite_sequence
                   ELSE /\ last'.status = 200
                        /\ last'.json = [success |-> TRUE]
                        /\ messages \subseteq messages'
                        /\ Cardinality(messages' \ messages) = 1
                        /\ \A row \in messages' \ messages :
                               /\ row.session_id = CreateIdOf(b)
                               /\ row.role = "assistant"
                               /\ row.content = <<>>]_vars

\* a request without sessionId was refused while the store held a session
C19_Witness ==
    /\ last.route = "create"
    /\ last.status = 400
    /\ messages # {}

\* a step of a chat request that works on the given session
ChatStepOn(sid) == \E r \in Requests : pc'[r] # pc[r] /\ sessionId[r] = sid

\* a step in which request r read its history and assembled its transcript
AssembleStep(r) ==
    pc[r] = "read_history" /\ pc'[r] \in {"invoke", "stream_open"}

\* C20: the stored turns of a session, with their timestamps and ids and
\* so with the order a read returns them in, change only in a step of a
\* chat request, a creation or a deletion for that very session; and the
\* history a chat request reads and the transcript it assembles hold turns
\* of its own session only.
C20_SessionsIsolated ==
    [][/\ \A B \in Sessions :
              \/ Created(B)
              \/ Deleted(B)
              \/ ChatStepOn(B)
              \/ RowsOf(messages', B) = RowsOf(messages, B)
       /\ \A r \in Requests :
              AssembleStep(r) =>
                  /\ \A i \in DOMAIN history'[r] :
                         /\ history'[r][i].session_id = sessionId[r]
                         /\ history'[r][i] \in messages
                  /\ Len(langchainMessages'[r]) <= Len(history'[r]) + 1
                  /\ \A i \in 1..(Len(langchainMessages'[r]) - 1) :
                         langchainMessages'[r][i] = ToLangchain(history'[r][i])
                  /\ langchainMessages'[r][Len(langchainMessages'[r])]
                         = [type |-> "HumanMessage", content |-> message[r]]]_vars

\* a chat request assembled its transcript from its own turns while the
\* other session owned a turn
C20_Witness ==
    \E r \in Requests :
        /\ CallRunning(r)
        /\ Len(history[r]) >= 1
        /\ \E row \in messages : row.session_id # sessionId[r]
        /\ \A i \in DOMAIN history[r] : history[r][i].session_id = sessionId[r]

\* every row some session still owns was stored after the row of the given
\* id, as after a DELETE of the session that took that row along
DeletedSince(id) ==
    \E s \in Sessions : \A row \in RowsOf(messages, s) : row.id > id

\* C21: whenever the response of a streaming request carries the done
\* event, saveMessage(assistant) has resolved for that request and the row
\* it stored, holding the accumulated text of the content events, is in
\* the table unless its session was deleted since; a request whose
\* assistant append did not resolve has no done event.
C21_DoneAfterPersist ==
    \A r \in Requests :
        ~NoDone(res[r]) =>
            /\ saved[r].assistant # 0
            /\ \/ \E row \in RowsById(saved[r].assistant) :
                      /\ row.role = "assistant"
                      /\ row.content = Concat(EventContents(res[r]))
               \/ /\ RowsById(saved[r].user) = {}
                  /\ DeletedSince(saved[r].assistant)

\* the caller received two fragments and done, and the assistant row is stored
C21_Witness ==
    \E r \in Requests :
        /\ ~NoDone(res[r])
        /\ Len(res[r].events) = 3
        /\ RowsById(saved[r].assistant) # {}

\* the first n fragments the completion stream yields
Fragments(n) == [i \in 1..n |-> FragmentAt(i)]

\* the events are the content events of the first n fragments, in order
RelaysFragments(evs, n) ==
    \A i \in 1..n : i <= Len(evs) /\ evs[i] = ContentEvent(FragmentAt(i))

\* C22: while a streaming request relays, the caller has received one
\* content event for each fragment pulled so far, in the order pulled; once
\* the request has completed, the events are those content events followed
\* by one done event as the last event, the response is ended with status
\* 200, and the stored answer is the concatenation of the fragments.
C22_OneEventPerFragment ==
    \A r \in Requests :
        /\ (streaming[r] /\ pc[r] \in {"stream_next", "save_assistant"}) =>
               /\ RelaysFragments(res[r].events, Len(res[r].events))
               /\ fullResponse[r] = Concat(Fragments(Len(res[r].events)))
        /\ ~NoDone(res[r]) =>
               LET n == Len(res[r].events) - 1
               IN  /\ res[r].events[n + 1] = DoneEvent
                   /\ RelaysFragments(res[r].events, n)
                   /\ res[r].ended
                   /\ res[r].status = 200
                   /\ pc[r] = "done"
                   /\ \A row \in RowsById(saved[r].assistant) :
                          row.content = Concat(Fragments(n))

\* a stream of two different fragments was relayed and closed
C22_Witness ==
    \E r \in Requests :
        /\ pc[r] = "done"
        /\ res[r].ended
        /\ Len(res[r].events) >= 3
        /\ res[r].events[1] # res[r].events[2]
        /\ res[r].events[Len(res[r].events)] = DoneEvent

\* the events written to the response that the caller has not read yet
Pending(rs) == Len(rs.events) - rs.drained

\* C23: while a streaming request relays, at most one fragment has been
\* pulled from the completion stream and not yet been delivered to the
\* caller: the next fragment is pulled only once the one before has left
\* the response's buffer.
C23_AtMostOnePending ==
    \A r \in Requests : pc[r] = "stream_next" => Pending(res[r]) <= 1

\* the history request a read holds the user turn of request b among the
\* turns it hands on, those before the last
ReadTurnOf(a, b) ==
    \E i \in 1..(Len(history[a]) - 1) : history[a][i].id = saved[b].user

\* C24: of two chat requests in flight, each has its own user turn stored
\* under its own id once its append has resolved, with the text and the
\* session of its request, whatever the other request does meanwhile:
\* neither append is lost or overwritten.  (That a transcript may or may
\* not hold the other request's turn is shown by the reachable state
\* C24_Witness.)
C24_BothUserTurnsStored ==
    \A a \in Requests :
        saved[a].user # 0 =>
            /\ \E row \in RowsById(saved[a].user) : row.role = "user"
            /\ Cardinality(RowsById(saved[a].user)) = 1
            /\ \A b \in Requests \ {a} : saved[b].user # saved[a].user
            /\ pc[a] \notin {"done", "aborted"} =>
                   \A row \in RowsById(saved[a].user) :
                       /\ row.content = message[a]
                       /\ row.session_id = sessionId[a]

\* two requests on one session have both assembled their transcripts: that
\* of one holds the other's user turn, that of the other does not
C24_Witness ==
    \E a, b \in Requests :
        /\ a # b
        /\ sessionId[a] = sessionId[b]
        /\ calls[a] = 1 /\ pc[a] \notin {"done", "aborted"}
        /\ calls[b] = 1 /\ pc[b] \notin {"done", "aborted"}
        /\ ReadTurnOf(a, b)
        /\ \A i \in DOMAIN history[b] : history[b][i].id # saved[a].user

\* a step in which a chat request stores its user turn for the session
UserTurnStep(sid) ==
    \E r \in Requests : pc[r] = "save_user" /\ sessionId[r] = sid

\* C25: once DELETE /api/sessions/:sessionId has answered for a session,
\* the session owns no turn, and is not listed, until POST /api/sessions or
\* a chat request for it stores a first turn of its own; a chat request
\* that had persisted its user turn before the deletion and finishes its
\* completion call afterwards does not bring the session back.
C25_DeletionFinal ==
    [][\A s \in Sessions :
           (cleared[s] /\ RowsOf(messages', s) # {}) =>
               (Created(s) \/ UserTurnStep(s))]_vars

\* C26: a streaming request that failed after a fragment had been written
\* leaves the caller with the content events of the fragments written, in
\* order and with nothing after them (no error event, no done event, no
\* JSON body, status 200), and has stored no assistant turn: its partial
\* text is in no row, and its user turn, unless deleted, has no answer.
C26_PartialStreamKept ==
    \A r \in Solo :
        pc[r] = "aborted" =>
            /\ Len(res[r].events) >= 1
            /\ RelaysFragments(res[r].events, Len(res[r].events))
            /\ res[r].json = NoBody
            /\ res[r].status = 200
            /\ saved[r].user # 0
            /\ saved[r].assistant = 0
            /\ \A row \in messages :
                   row.role = "assistant" => row.content = <<>>

\* a stream failed after two fragments and the user turn is still stored
C26_Witness ==
    \E r \in Solo :
        /\ pc[r] = "aborted"
        /\ Len(res[r].events) = 2
        /\ RowsById(saved[r].user) # {}
        /\ \A row \in messages : row.role = "user"

\* no request has been handled: no chat handler has started, no other
\* route has answered and the table is as it was at the start
NothingHandled ==
    /\ \A r \in Requests : pc[r] = "idle" /\ res[r] = FreshRes
    /\ last = NoResponse
    /\ messages = {}
    /\ sqlite_sequence = 0

\* C27: the server listens only with the store handle set, so a handler
\* runs its store operations on an open handle only; when initDatabase
\* fails the process has exited without handling any request; and with
\* the handle null the inserting store functions store nothing.
C27_InitBeforeUse ==
    /\ server = "listening" => db = "open"
    /\ ~NothingHandled => db = "open"
    /\ server \in {"starting", "exited"} => NothingHandled
    /\ db = "null" =>
           \A s \in Sessions :
               /\ ~ENABLED saveMessage(s, "user", <<"h">>)
               /\ ~ENABLED createSession(s)

\* a chat handler has stored its user turn through the open handle
C27_Witness ==
    /\ server = "listening"
    /\ db = "open"
    /\ \E r \in Requests : RowsById(saved[r].user) # {}

\* a step in which a store call of chat request r rejected: the append of
\* the user turn, the history read or the append of the assistant turn
StorageFailed(r) ==
    /\ pc[r] \in {"save_user", "read_history", "save_assistant"}
    /\ pc'[r] \in {"done", "aborted"}
    /\ saved'[r].assistant = 0

\* the body of the catch blocks
InternalError == [error |-> "Internal server error"]

\* C28: a rejected store call is answered with HTTP 500 and an error body
\* on every route: in POST /api/chat for the append of the user turn, the
\* history read and the append of the assistant turn, the latter also at
\* the end of a stream whose fragments have been written, and in the
\* history, sessions, create and delete routes.
C28_StorageFailure500 ==
    [][/\ \A r \in Requests :
              StorageFailed(r) =>
                  (res'[r].status = 500 /\ res'[r].json = InternalError)
       /\ \A route \in {"history", "sessions", "create", "delete"} :
              \A sid \in Sessions :
                  RouteFail(route, sid) =>
                      (last'.status = 500 /\ last'.json = InternalError)]_vars

\* the placeholder rows of a session
Placeholders(table, sid) ==
    {row \in RowsOf(table, sid) : row.role = "assistant" /\ row.content = <<>>}

\* how often an id occurs in a list
Occurrences(l, x) == Cardinality({i \in DOMAIN l : l[i] = x})

\* C29: every successful POST /api/sessions for a session, whether or not
\* the session owns turns already, adds exactly one placeholder turn to it
\* and keeps the turns it had, so that its history is one turn longer than
\* before, and the session is listed exactly once afterwards.
C29_CreateNotDeduplicated ==
    [][\A x \in Sessions :
           Created(x) =>
               /\ RowsOf(messages, x) \subseteq RowsOf(messages', x)
               /\ Cardinality(RowsOf(messages', x))
                      = Cardinality(RowsOf(messages, x)) + 1
               /\ Cardinality(Placeholders(messages', x))
                      = Cardinality(Placeholders(messages, x)) + 1
               /\ \A h \in getConversationHistory(messages', x) :
                      Len(h) = Cardinality(RowsOf(messages, x)) + 1
               /\ Occurrences(getAllSessions(messages'), x) = 1]_vars

\* a session was created a third time and holds three placeholders
C29_Witness ==
    /\ last.route = "create"
    /\ last.status = 200
    /\ Cardinality(Placeholders(messages, last.sessionId)) = 3
    /\ Occurrences(getAllSessions(messages), last.sessionId) = 1

\* in this step request r stored the row as its user turn, the first it stores
StoresUserTurn(r, row) ==
    /\ pc[r] = "save_user"
    /\ pc'[r] = "read_history"
    /\ row.role = "user"
    /\ row.content = message[r]
    /\ saved[r] = [user |-> 0, assistant |-> 0]
    /\ saved'[r] = [user |-> row.id, assistant |-> 0]

\* in this step request r stored the row as its assistant turn, after its
\* user turn and after its one completion call had finished
StoresAssistantTurn(r, row) ==
    /\ pc[r] = "save_assistant"
    /\ pc'[r] = "done"
    /\ row.role = "assistant"
    /\ row.content = fullResponse[r]
    /\ calls[r] = 1
    /\ saved[r].user # 0
    /\ saved[r].assistant = 0
    /\ saved'[r] = [user |-> saved[r].user, assistant |-> row.id]

\* C30: with chat requests only, every row that enters the table is the
\* user turn or the assistant turn of one request, stored under the session
\* of that request; a request stores its user turn once and first, its
\* assistant turn once and only after its completion call has finished,
\* and it starts the completion call at most once.
C30_OneTurnEach ==
    [][/\ messages \subseteq messages'
       /\ Cardinality(messages' \ messages) <= 1
       /\ \A row \in messages' \ messages :
              \E r \in Requests :
                  /\ row.session_id = sessionId[r]
                  /\ StoresUserTurn(r, row) \/ StoresAssistantTurn(r, row)
       /\ \A r \in Requests :
              /\ calls'[r] <= 1
              /\ calls'[r] >= calls[r]
              /\ saved[r].user # 0 => saved'[r].user = saved[r].user
              /\ saved[r].assistant # 0 => saved'[r] = saved[r]
              /\ messages' = messages => saved'[r] = saved[r]]_vars

\* two requests on different sessions have each stored a user turn, and one
\* of them its assistant turn
C30_Witness ==
    \E a, b \in Requests :
        /\ saved[a].assistant # 0
        /\ saved[b].user # 0
        /\ \E ra \in RowsById(saved[a].user), rb \in RowsById(saved[b].user) :
               ra.session_id # rb.session_id
        /\ Cardinality(messages) = 3

====
